---------------------------- MODULE Spec2Model ----------------------------
(***************************************************************************)
(* The payment / refund workflow of the school-fee backend:                *)
(*   controller/paymentController.js  initializePayment, verifyPayment,    *)
(*                                    handleWebhook                        *)
(*   controller/refundController.js   requestRefund, reviewRefund,         *)
(*                                    handleRefundWebhook                  *)
(*   utils/fraudDetection.js         checkFraud                            *)
(* Every action is one whole request handler run against the document      *)
(* store.  The stores are the variables; identifiers of payments and       *)
(* refunds are their positions in the stores; a payment's gateway          *)
(* reference (providerMetadata.paystackRef) is modelled by its identifier, *)
(* the reference being built from payment._id.                             *)
(***************************************************************************)
EXTENDS Integers, Sequences, FiniteSets, Bags, TLC

\* ------------------------------------------------------------------ bounds
MaxCalls == 3          \* payment-handler invocations that write to a store
MaxRefundCalls == 4    \* refund-handler invocations that write to a store
MaxPayments == 1       \* Payment documents
MaxRefunds == 2        \* Refund documents
FeeAmount == 2         \* fee.amount of the fee being paid
MaxFraudCalls == 2     \* invocations of checkFraud
MaxRequests == 2       \* requests in flight on one payment or fee assignment
MaxStudentCalls == 3   \* student-controller invocations that write to a store
MaxTime == 2           \* hours the clock runs
MAX_LOGIN_ATTEMPTS == 2  \* config/env.js, the deployment's setting

\* req.body.amount: nothing, less than the fee, the fee, more than the fee
Amounts == {0, FeeAmount - 1, FeeAmount, FeeAmount + 1}
Students == {"s1", "s2"}              \* req.user.id of a student; s1 holds the fee assignment
Schools == {"sch1", "sch2"}           \* req.user.id of a school admin; sch1 owns the fee
NoId == 0                             \* an identifier or reference no document has

VARIABLES
    fee,            \* the Fee document: amount, allowPartialPayment, schoolId
    feeAssignment,  \* the FeeAssignment of (fee, s1): amountDue, amountPaid, status
    payments,       \* Payment collection, Seq of documents
    receipts,       \* Receipt collection: payment ids that have a receipt
    invoices,       \* invoices generated, a bag of payment ids
    refunds,        \* Refund collection, Seq of documents (with auditTrail)
    txLog,          \* TransactionLog collection, a bag of entries
    auditLog,       \* AuditLog collection written by logActionUtil, a bag of entries
    credits,        \* history: per payment, how often its amount was added to amountPaid
    calls,          \* number of payment-handler invocations that wrote to a store
    refundCalls,    \* number of refund-handler invocations that wrote to a store
    last,           \* the last request and its response
    fraudQueue,     \* FraudCheckQueue collection, Seq of documents
    fraudLogs,      \* FraudLog collection, a bag of payment ids
    fraudCalls,     \* number of checkFraud invocations
    fraudCall,      \* the last checkFraud invocation and its outcome
    requests,       \* confirmation requests in flight: handler, position, document read
    updates,        \* initializations in flight: position, amount, fee assignment read
    studentLog,     \* TransactionLog entries written by the student controller, a bag
    studentCalls,   \* number of student-controller invocations that wrote to a store
    refreshTokens,  \* number of StudentRefreshToken documents
    now,            \* the clock, in hours
    openSessions    \* sessions started by initializePayment and not ended

vars == <<fee, feeAssignment, payments, receipts, invoices, refunds, txLog,
          auditLog, credits, calls, refundCalls, last,
          fraudQueue, fraudLogs, fraudCalls, fraudCall, requests, updates,
          studentLog, studentCalls, refreshTokens, now, openSessions>>

\* What checkFraud alone writes.
fraudVars == <<fraudQueue, fraudLogs, fraudCalls, fraudCall>>

\* What the student controller alone writes, and the clock it reads.
studentVars == <<studentLog, studentCalls, refreshTokens, now>>

\* Everything a handler can write.
stores == <<fee, feeAssignment, payments, receipts, invoices, refunds, txLog,
            auditLog, credits>>

\* ------------------------------------------------------------- store helpers
LogEntry(action, paymentId, refundId) ==
    [action |-> action, paymentId |-> paymentId, refundId |-> refundId]

Append1(bag, e) == bag (+) SetToBag({e})

\* The request just handled: the handler, the exit path it took, the document
\* it addressed and that document's status before the call, req.body.amount
\* (0 for a handler that takes none), the HTTP status code of the response,
\* and whether the handler wrote to a store.
Response(op, path, id, pre, amount, code, wrote) ==
    [op |-> op, path |-> path, id |-> id, pre |-> pre, amount |-> amount,
     code |-> code, wrote |-> wrote]

\* A request that writes nothing leaves every store as it found it, so the
\* requests after it reach nothing that is not reached without it: a behaviour
\* is followed up to and including its first such request.  Requests that
\* write are counted, the payment handlers' against MaxCalls and the refund
\* handlers' against MaxRefundCalls.
PaymentCall(writes) ==
    /\ last.wrote
    /\ writes => calls < MaxCalls
    /\ calls' = IF writes THEN calls + 1 ELSE calls
    /\ UNCHANGED <<refundCalls, fraudVars, requests, updates, studentVars>>

RefundCall(writes) ==
    /\ last.wrote
    /\ writes => refundCalls < MaxRefundCalls
    /\ refundCalls' = IF writes THEN refundCalls + 1 ELSE refundCalls
    /\ UNCHANGED <<calls, fraudVars, requests, updates, studentVars, openSessions>>

PaymentIds == 1 .. Len(payments)
RefundIds == 1 .. Len(refunds)

\* PaymentModel.findOne({"providerMetadata.paystackRef": reference})
FindPaymentByRef(reference) ==
    IF \E p \in PaymentIds : payments[p].providerMetadata.paystackRef = reference
    THEN CHOOSE p \in PaymentIds : payments[p].providerMetadata.paystackRef = reference
    ELSE NoId

StatusOf(p) == IF p \in PaymentIds THEN payments[p].status ELSE "none"

\* ------------------------------------------------------------ JS numbers
\* A JavaScript number: finite (the rational n / d, d > 0), NaN, Infinity,
\* -Infinity; "none" where no number was computed.  Rounding is not modelled.
JsNumber(n) == [k |-> "fin", n |-> n, d |-> 1]
JsRatio(n, d) == [k |-> "fin", n |-> n, d |-> d]
NaN == [k |-> "nan", n |-> 0, d |-> 1]
PosInfinity == [k |-> "inf", n |-> 1, d |-> 1]
NegInfinity == [k |-> "inf", n |-> -1, d |-> 1]
NoNumber == [k |-> "none", n |-> 0, d |-> 1]

Sign(n) == IF n > 0 THEN 1 ELSE IF n < 0 THEN -1 ELSE 0
Abs(n) == IF n < 0 THEN -n ELSE n
Signed(sign) == IF sign = 0 THEN NaN ELSE IF sign > 0 THEN PosInfinity ELSE NegInfinity

\* x * y
JsTimes(x, y) ==
    IF x.k = "nan" \/ y.k = "nan" THEN NaN
    ELSE IF x.k = "inf" \/ y.k = "inf" THEN Signed(Sign(x.n) * Sign(y.n))
    ELSE JsRatio(x.n * y.n, x.d * y.d)

\* x / y
JsDivide(x, y) ==
    IF x.k = "nan" \/ y.k = "nan" THEN NaN
    ELSE IF x.k = "inf" THEN (IF y.k = "inf" THEN NaN
                             ELSE Signed(Sign(x.n) * (IF y.n < 0 THEN -1 ELSE 1)))
    ELSE IF y.k = "inf" THEN JsNumber(0)
    ELSE IF y.n = 0 THEN Signed(Sign(x.n))
    ELSE JsRatio(x.n * y.d * Sign(y.n), x.d * Abs(y.n))

\* x < y, for numbers other than NaN
JsLess(x, y) ==
    IF x.k = "inf" THEN x.n < 0 /\ ~(y.k = "inf" /\ y.n < 0)
    ELSE IF y.k = "inf" THEN y.n > 0
    ELSE x.n * y.d < y.n * x.d

\* Math.min(x, y)
MathMin(x, y) ==
    IF x.k = "nan" \/ y.k = "nan" THEN NaN
    ELSE IF JsLess(y, x) THEN y ELSE x

\* ------------------------------------------------------------------ Init
RequestIds == 1 .. MaxRequests

\* A request that has not arrived.
NoRequest == [handler |-> "none", pc |-> "idle", payment |-> NoId, status |-> "none"]

\* An initialization that has not arrived.
NoUpdate == [pc |-> "idle", studentId |-> "none", amount |-> 0,
             assignment |-> [amountDue |-> 0, amountPaid |-> 0, status |-> "none"]]

NoFraudResult == [fraudScore |-> NoNumber, anomaly_scale |-> "none"]

NoFraudCall ==
    [paymentId |-> NoId, path |-> "none", reconstruction_error |-> NoNumber,
     threshold |-> NoNumber, score |-> NoNumber, outcome |-> "none",
     result |-> NoFraudResult]

Init ==
    /\ fee \in [amount : {FeeAmount}, allowPartialPayment : BOOLEAN, schoolId : {"sch1"}]
    /\ feeAssignment = [amountDue |-> FeeAmount, amountPaid |-> 0, status |-> "assigned"]
    /\ payments = <<>>
    /\ receipts = {}
    /\ invoices = EmptyBag
    /\ refunds = <<>>
    /\ txLog = EmptyBag
    /\ auditLog = EmptyBag
    /\ credits = <<>>
    /\ calls = 0
    /\ refundCalls = 0
    /\ last = Response("none", "none", NoId, "none", 0, 0, TRUE)
    /\ fraudQueue = <<>>
    /\ fraudLogs = EmptyBag
    /\ fraudCalls = 0
    /\ fraudCall = NoFraudCall
    /\ requests = [i \in RequestIds |-> NoRequest]
    /\ updates = [i \in RequestIds |-> NoUpdate]
    /\ studentLog = EmptyBag
    /\ studentCalls = 0
    /\ refreshTokens = 0
    /\ openSessions = 0
    /\ now = 0

\* ------------------------------------------------------- initializePayment
\* paymentController.js:41  if (amount < fee.amount && !fee.allowPartialPayment)
PartialPaymentRefused(f, amount) == amount < f.amount /\ ~f.allowPartialPayment

\* Mutant of InvalidAmount: zero passes the test.
InvalidAmount_NegativeOnly(amount) == amount < 0

\* paymentController.js:50  if (amount <= 0)
InvalidAmount(amount) == amount <= 0

\* paymentController.js:140-150  FeeAssignmentModel.findOne({feeId, studentId})
AssignmentFound(studentId) == studentId = "s1"

\* paymentController.js:152-156  the balance update made at initialization
InitAssignmentUpdate(a, amount) ==
    LET paid == a.amountPaid + amount IN
    [a EXCEPT !.amountPaid = paid,
              !.status = IF paid >= a.amountDue THEN "fully_paid" ELSE "partially_paid"]

\* The exit path of initializePayment, in the order of the code.
\*   lookup : what the Fee / School / provider / Student lookups find
\*   gw     : the gateway's answer to /transaction/initialize
\*   side   : the first receipt side effect that fails, if any: the upload of
\*            the PDF (197-206), receipt.save (221), the receipt e-mail (243),
\*            the receipt log (247, caught on 258).  The e-mail is sent by
\*            sendFeeAssignmentEmail, a name paymentController.js neither
\*            imports nor defines (line 15 imports sendFraudAlertEmail and
\*            sendReceipt): the call is modelled by both of its outcomes, and
\*            "email" is the outcome of the file as it stands.
InitPath(studentId, lookup, amount, gw, side) ==
    IF lookup = "feeMissing" THEN "feeNotFound"
    ELSE IF PartialPaymentRefused(fee, amount) THEN "partialNotAllowed"
    ELSE IF InvalidAmount(amount) THEN "invalidAmount"
    ELSE IF lookup = "schoolMissing" THEN "schoolNotFound"
    ELSE IF lookup = "providerMissing" THEN "providerNotConfigured"
    ELSE IF gw = "throws" THEN "gatewayThrew"
    ELSE IF gw = "declined" THEN "gatewayDeclined"
    ELSE IF ~AssignmentFound(studentId) THEN "assignmentNotFound"
    ELSE IF lookup = "studentMissing" THEN "studentNotFound"
    ELSE IF side = "upload" THEN "uploadFailed"
    ELSE IF side = "receipt" THEN "receiptFailed"
    ELSE IF side = "email" THEN "emailFailed"
    ELSE IF side = "log" THEN "okLogFailed"
    ELSE "ok"

InitCode(path) ==
    CASE path \in {"feeNotFound", "schoolNotFound", "assignmentNotFound", "studentNotFound"} -> 404
      [] path \in {"partialNotAllowed", "invalidAmount", "providerNotConfigured"} -> 400
      [] path \in {"gatewayThrew", "gatewayDeclined", "uploadFailed", "receiptFailed",
                   "emailFailed"} -> 500
      [] OTHER -> 200

\* Paths on which the catch block runs (paymentController.js:284-317).
InitThrown == {"gatewayThrew", "uploadFailed", "receiptFailed", "emailFailed"}

\* Paths that pass line 157, where assignment.save() has run outside the session.
InitAssignmentSaved ==
    {"studentNotFound", "uploadFailed", "receiptFailed", "emailFailed", "okLogFailed", "ok"}

\* What becomes of the transaction started on line 28.  It is committed on
\* line 276; session.abortTransaction() runs on the exits of lines 42, 51, 59,
\* 68, 127, 162 and in the catch block (286); the fee-not-found exit (36) only
\* ends the session, which aborts a transaction in progress; the
\* assignment-not-found exit (146-150) returns with the transaction in progress.
InitTransaction(path) ==
    IF path \in {"okLogFailed", "ok"} THEN "committed"
    ELSE IF path = "assignmentNotFound" THEN "inProgress"
    ELSE "aborted"

\* session.endSession() runs on every exit (lines 36, 43, 52, 60, 69, 128,
\* 163, 277, 287) but the assignment-not-found one (146-150).
InitSessionEnded(path) == path # "assignmentNotFound"

\* Mutant of InitCommits: the payment is saved before the gateway's answer is
\* examined, outside the transaction.
InitCommits_BeforeGateway(path) == path \in {"okLogFailed", "ok", "gatewayDeclined"}

\* The transaction holding payment.save({session}) and receipt.save({session})
\* is committed on line 276 only.
InitCommits(path) == path \in {"okLogFailed", "ok"}

\* Paths on which a store is written.
InitWrites(path) == path \in InitAssignmentSaved \cup InitThrown

initializePayment(studentId, lookup, amount, gw, side) ==
    \E path \in {InitPath(studentId, lookup, amount, gw, side)} :
    LET id == Len(payments) + 1
        payment == [studentId |-> studentId, schoolId |-> fee.schoolId, amount |-> amount,
                    paymentProvider |-> "Paystack", status |-> "initiated",
                    providerMetadata |-> [paystackRef |-> id, paystackData |-> "none"]]
    IN
    /\ PaymentCall(InitWrites(path))
    /\ InitCommits(path) => Len(payments) < MaxPayments
    /\ feeAssignment' = IF path \in InitAssignmentSaved
                        THEN InitAssignmentUpdate(feeAssignment, amount)
                        ELSE feeAssignment
    /\ payments' = IF InitCommits(path) THEN Append(payments, payment) ELSE payments
    /\ credits' = IF InitCommits(path) THEN Append(credits, 1) ELSE credits
    /\ receipts' = IF InitCommits(path) THEN receipts \cup {id} ELSE receipts
    /\ txLog' = IF path = "ok" THEN Append1(txLog, LogEntry("receipt_generated", id, NoId))
                ELSE IF path \in InitThrown
                THEN Append1(txLog, LogEntry("payment_initialization_error", NoId, NoId))
                ELSE txLog
    /\ last' = Response("initializePayment", path, IF InitCommits(path) THEN id ELSE NoId,
                        "none", amount, InitCode(path), InitWrites(path))
    /\ openSessions' = IF InitSessionEnded(path) THEN openSessions ELSE openSessions + 1
    /\ UNCHANGED <<fee, invoices, refunds, auditLog>>

\* ------------------------------------------------ settlement and invoices
\* feeAssignController.js, updateFeeAssignmentStatus({paymentId}), after its
\* specified behaviour (Settlement): the payment's amount is added to
\* amountPaid and the status is derived from (amountPaid, amountDue).  It has
\* no guard of its own; its callers are to call it once per payment.
DerivedStatus(paid, due) ==
    IF paid >= due THEN "fully_paid"
    ELSE IF paid > 0 THEN "partially_paid"
    ELSE "assigned"

updateFeeAssignmentStatus(a, p) ==
    LET paid == a.amountPaid + payments[p].amount IN
    [a EXCEPT !.amountPaid = paid, !.status = DerivedStatus(paid, a.amountDue)]

\* invoiceController.js, createInvoice, after its specified behaviour: one
\* invoice is generated for the payment.
createInvoice(inv, p) == Append1(inv, p)

\* auditController.js, logActionUtil, after its specified behaviour: one
\* AuditLog entry is appended.
logActionUtil(log, action, entityType, entityId) ==
    Append1(log, [action |-> action, entityType |-> entityType, entityId |-> entityId])

\* ----------------------------------------------------------- verifyPayment
\* paymentController.js:342  response.data.status && response.data.data.status === "success"
VerifySucceeded(gw) == gw = "success"

\* verifyPayment has no test of payment.status before it confirms or rejects.
VerifyPath(p, gw) ==
    IF p = NoId THEN "notFound"
    ELSE IF gw = "throws" THEN "gatewayThrew"
    ELSE IF VerifySucceeded(gw) THEN "confirmed"
    ELSE "rejected"

VerifyCode(path) ==
    CASE path = "notFound" -> 404
      [] path = "gatewayThrew" -> 500
      [] path = "confirmed" -> 200
      [] OTHER -> 400

\* The confirmation block shared, line for line, by verifyPayment (343-383)
\* and handleWebhook (435-475).
Confirm(p, data) ==
    /\ payments' = [payments EXCEPT ![p].status = "confirmed",
                                    ![p].providerMetadata.paystackData = data]
    /\ txLog' = Append1(txLog, LogEntry("payment_confirmed", p, NoId))
    /\ auditLog' = logActionUtil(auditLog, "payment_confirmed", "Payment", p)
    /\ invoices' = createInvoice(invoices, p)
    /\ feeAssignment' = updateFeeAssignmentStatus(feeAssignment, p)
    /\ credits' = [credits EXCEPT ![p] = @ + 1]

verifyPayment(reference, gw) ==
    \E p \in {FindPaymentByRef(reference)} : \E path \in {VerifyPath(p, gw)} :
    /\ PaymentCall(path \in {"confirmed", "rejected"})
    /\ last' = Response("verifyPayment", path, p, StatusOf(p), 0, VerifyCode(path),
                        path \in {"confirmed", "rejected"})
    /\ UNCHANGED openSessions
    /\ CASE path = "confirmed" ->
              /\ Confirm(p, "verifyResponse")
              /\ UNCHANGED <<fee, receipts, refunds>>
         [] path = "rejected" ->
              /\ payments' = [payments EXCEPT ![p].status = "rejected"]
              /\ auditLog' = logActionUtil(auditLog, "payment_rejected", "Payment", p)
              /\ UNCHANGED <<fee, feeAssignment, receipts, invoices, refunds, txLog,
                             credits>>
         [] OTHER -> UNCHANGED stores

\* ----------------------------------------------------------- handleWebhook
\* Mutant of WebhookConfirms: the status test is missing, as in verifyPayment.
WebhookConfirms_Unguarded(status) == TRUE

\* paymentController.js:434  if (payment.status !== "confirmed")
WebhookConfirms(status) == status # "confirmed"

WebhookPath(event, p) ==
    IF event \notin {"charge.success", "charge.failed"} THEN "ignored"
    ELSE IF p = NoId THEN "notFound"
    ELSE IF event = "charge.failed" THEN "rejected"
    ELSE IF WebhookConfirms(payments[p].status) THEN "confirmed"
    ELSE "alreadyConfirmed"

WebhookCode(path) == IF path = "notFound" THEN 404 ELSE 200

handleWebhook(event, reference) ==
    \E p \in {FindPaymentByRef(reference)} : \E path \in {WebhookPath(event, p)} :
    /\ PaymentCall(path \in {"confirmed", "rejected"})
    /\ last' = Response("handleWebhook", path, p, StatusOf(p), 0, WebhookCode(path),
                        path \in {"confirmed", "rejected"})
    /\ UNCHANGED openSessions
    /\ CASE path = "confirmed" ->
              /\ Confirm(p, "webhookEvent")
              /\ UNCHANGED <<fee, receipts, refunds>>
         [] path = "rejected" ->
              /\ payments' = [payments EXCEPT ![p].status = "rejected"]
              /\ txLog' = Append1(txLog, LogEntry("payment_rejected", p, NoId))
              /\ auditLog' = logActionUtil(auditLog, "payment_rejected", "Payment", p)
              /\ UNCHANGED <<fee, feeAssignment, receipts, invoices, refunds, credits>>
         [] OTHER -> UNCHANGED stores

\* ------------------------------------------------------------ requestRefund
\* refundController.js:30-35  payment.amount minus the refunds of the payment
\* whose status is approved or processed
RECURSIVE SumRefunds(_, _, _)
SumRefunds(rs, paymentId, statuses) ==
    IF rs = <<>> THEN 0
    ELSE (IF Head(rs).paymentId = paymentId /\ Head(rs).status \in statuses
          THEN Head(rs).amount ELSE 0) + SumRefunds(Tail(rs), paymentId, statuses)

RefundableAmount(paymentId) ==
    payments[paymentId].amount - SumRefunds(refunds, paymentId, {"approved", "processed"})

\* Mutant of RefundAmountRefused: the amount is not compared with what is left.
RefundAmountRefused_Unbounded(amount, refundable) == amount <= 0

\* refundController.js:36  if (amount <= 0 || amount > refundableAmount)
RefundAmountRefused(amount, refundable) == amount <= 0 \/ amount > refundable

\* refundController.js:405-409
calculateFraudScore == 0

\* Mutant of PaymentOwnedBy: any student may ask.
PaymentOwnedBy_Anyone(paymentId, studentId) == TRUE

\* refundController.js:22  payment.studentId.toString() !== studentId.toString()
PaymentOwnedBy(paymentId, studentId) == payments[paymentId].studentId = studentId

RequestPath(studentId, paymentId, amount) ==
    IF paymentId \notin PaymentIds THEN "paymentNotFound"
    ELSE IF ~PaymentOwnedBy(paymentId, studentId) THEN "unauthorized"
    ELSE IF RefundAmountRefused(amount, RefundableAmount(paymentId)) THEN "invalidAmount"
    ELSE "created"

RequestCode(path) ==
    CASE path = "paymentNotFound" -> 404
      [] path = "unauthorized" -> 403
      [] path = "invalidAmount" -> 400
      [] OTHER -> 201

requestRefund(studentId, paymentId, amount) ==
    \E path \in {RequestPath(studentId, paymentId, amount)} :
    LET id == Len(refunds) + 1
        refund == [paymentId |-> paymentId, studentId |-> studentId,
                   schoolId |-> payments[paymentId].schoolId, amount |-> amount,
                   status |-> "requested", fraudScore |-> calculateFraudScore,
                   auditTrail |-> <<"refund_requested">>]
    IN
    /\ RefundCall(path = "created")
    /\ path = "created" => Len(refunds) < MaxRefunds
    /\ last' = Response("requestRefund", path, IF path = "created" THEN id ELSE NoId,
                        "none", amount, RequestCode(path), path = "created")
    /\ IF path = "created"
       THEN /\ refunds' = Append(refunds, refund)
            /\ txLog' = Append1(txLog, LogEntry("refund_requested", paymentId, id))
            /\ auditLog' = logActionUtil(auditLog, "refund_requested", "Refund", id)
            /\ UNCHANGED <<fee, feeAssignment, payments, receipts, invoices, credits>>
       ELSE UNCHANGED stores

\* ------------------------------------------------------------- reviewRefund
\* refundController.js:117  ['approved', 'rejected'].includes(status)
ValidDecision(status) == status \in {"approved", "rejected"}

\* refundController.js:111  refund.schoolId._id.toString() !== adminId.toString()
RefundOwnedBy(r, adminId) == refunds[r].schoolId = adminId

\* reviewRefund has no test of refund.status (114-116 are commented out).
\*   provider : whether the school has Paystack among its paymentProviders
\*   gw       : the gateway's answer to /refund
\* The payment of a refund always exists, is a Paystack payment and carries
\* its paystackRef (payments are never deleted; initializePayment sets both),
\* so the exits of lines 162-172 are not taken.
ReviewPath(adminId, r, status, provider, gw) ==
    IF r \notin RefundIds THEN "refundNotFound"
    ELSE IF ~RefundOwnedBy(r, adminId) THEN "unauthorized"
    ELSE IF ~ValidDecision(status) THEN "invalidStatus"
    ELSE IF status = "rejected" THEN "rejected"
    ELSE IF ~provider THEN "providerNotConfigured"
    ELSE IF gw = "throws" THEN "gatewayThrew"
    ELSE IF gw = "accepted" THEN "approved"
    ELSE "gatewayDeclined"

ReviewCode(path) ==
    CASE path = "refundNotFound" -> 404
      [] path = "unauthorized" -> 403
      [] path \in {"invalidStatus", "providerNotConfigured", "gatewayDeclined"} -> 400
      [] path = "gatewayThrew" -> 500
      [] OTHER -> 200

\* Paths that pass refund.save() on line 128.
ReviewSaved == {"rejected", "providerNotConfigured", "gatewayThrew", "approved",
                "gatewayDeclined"}

\* Paths on which the refund request is sent to the gateway
\* (refundController.js:179-216).
ReviewGatewayCalled == {"gatewayThrew", "approved", "gatewayDeclined"}

\* The assignments to refund.status the handler makes on a path: the decision
\* (refundController.js:122), then 'approved' when the gateway accepts (220) or
\* 'failed' when it declines (261).
ReviewStatusAssignments(path) ==
    IF path \in {"approved", "gatewayDeclined"} THEN 2
    ELSE IF path \in ReviewSaved THEN 1
    ELSE 0

\* refundController.js:260-262  refund.status = 'failed' is assigned to the
\* document in memory and the handler returns without refund.save().
DeclineStoredStatus(status) == status

\* The stored refund after the review.
ReviewedRefund(rf, status, path) ==
    LET decided == [rf EXCEPT !.status = status,
                              !.auditTrail = Append(@, "refund_" \o status)] IN
    IF path = "approved"
    THEN [decided EXCEPT !.status = "approved",
                         !.auditTrail = Append(@, "refund_approved")]
    ELSE IF path = "gatewayDeclined"
    THEN [decided EXCEPT !.status = DeclineStoredStatus(decided.status)]
    ELSE decided

reviewRefund(adminId, r, status, provider, gw) ==
    \E path \in {ReviewPath(adminId, r, status, provider, gw)} :
    LET decision == LogEntry("refund_" \o status, refunds[r].paymentId, r)
        logged == Append1(txLog, decision)
        audited == logActionUtil(auditLog, "refund_" \o status, "Refund", r)
    IN
    /\ RefundCall(path \in ReviewSaved)
    /\ last' = Response("reviewRefund", path, IF r \in RefundIds THEN r ELSE NoId,
                        IF r \in RefundIds THEN refunds[r].status ELSE "none",
                        0, ReviewCode(path), path \in ReviewSaved)
    /\ IF path \in ReviewSaved
       THEN /\ refunds' = [refunds EXCEPT ![r] = ReviewedRefund(@, status, path)]
            /\ txLog' = IF path = "approved" THEN Append1(logged, decision) ELSE logged
            /\ auditLog' = IF path = "approved"
                           THEN logActionUtil(audited, "refund_approved", "Refund", r)
                           ELSE audited
            /\ UNCHANGED <<fee, feeAssignment, payments, receipts, invoices, credits>>
       ELSE UNCHANGED stores

\* ------------------------------------------------------ handleRefundWebhook
PaystackSecret == "PAYSTACK_SECRET_KEY"

\* refundController.js:282-285  the HMAC-SHA512 of the event body under a key
Hmac(key, body) == <<"hmac-sha512", key, body>>

\* Mutant of SignatureValid: the comparison is missing.
SignatureValid_Unchecked(body, signature) == TRUE

\* refundController.js:286  if (hash !== signature)
SignatureValid(body, signature) == Hmac(PaystackSecret, body) = signature

\* Mutant of FindOpenRefund: the payment's first refund, whatever its status.
FindOpenRefund_AnyStatus(p) ==
    LET open == {r \in RefundIds : refunds[r].paymentId = p}
    IN IF open = {} THEN NoId ELSE CHOOSE r \in open : \A q \in open : r <= q

\* refundController.js:297-300  RefundModel.findOne({paymentId, status: {$in:
\* ['approved', 'requested']}}): the first matching document
FindOpenRefund(p) ==
    LET open == {r \in RefundIds : refunds[r].paymentId = p
                                   /\ refunds[r].status \in {"approved", "requested"}}
    IN IF open = {} THEN NoId ELSE CHOOSE r \in open : \A q \in open : r <= q

\* Mutant of RefundFailedEvent: every event that is not refund.processed is
\* handled as refund.failed.
RefundFailedEvent_Otherwise(event) == TRUE

\* refundController.js:344  else if (event.event === 'refund.failed')
RefundFailedEvent(event) == event = "refund.failed"

RefundWebhookPath(body, signature) ==
    LET p == FindPaymentByRef(body.reference) IN
    IF ~SignatureValid(body, signature) THEN "invalidSignature"
    ELSE IF body.event # "refund.processed" /\ ~RefundFailedEvent(body.event) THEN "ignored"
    ELSE IF p = NoId THEN "paymentNotFound"
    ELSE IF FindOpenRefund(p) = NoId THEN "refundNotFound"
    ELSE IF body.event = "refund.processed" THEN "processed"
    ELSE "failed"

RefundWebhookCode(path) ==
    CASE path = "invalidSignature" -> 401
      [] path \in {"paymentNotFound", "refundNotFound"} -> 404
      [] OTHER -> 200

\* refundController.js:306-311 and 358-363  the status and the audit entry
WebhookedRefund(rf, path) ==
    [rf EXCEPT !.status = path, !.auditTrail = Append(@, "refund_" \o path)]

handleRefundWebhook(body, signature) ==
    \E path \in {RefundWebhookPath(body, signature)} :
    LET p == FindPaymentByRef(body.reference)
        r == IF p = NoId THEN NoId ELSE FindOpenRefund(p)
        writes == path \in {"processed", "failed"}
    IN
    /\ RefundCall(writes)
    /\ last' = Response("handleRefundWebhook", path, IF writes THEN r ELSE NoId,
                        IF writes THEN refunds[r].status ELSE "none",
                        0, RefundWebhookCode(path), writes)
    /\ IF writes
       THEN /\ refunds' = [refunds EXCEPT ![r] = WebhookedRefund(@, path)]
            /\ txLog' = Append1(txLog, LogEntry("refund_" \o path, p, r))
            /\ auditLog' = logActionUtil(auditLog, "refund_" \o path, "Refund", r)
            /\ UNCHANGED <<fee, feeAssignment, payments, receipts, invoices, credits>>
       ELSE UNCHANGED stores

\* ------------------------------------------- concurrent confirmation requests
\* verifyPayment (gateway answering success) and handleWebhook (charge.success)
\* on one payment, each handler run one await at a time: the handlers share
\* nothing but the store, and another request can run between two awaits.
\* The two TransactionLog / AuditLog appends are one step (appends to
\* different collections, read by neither handler).

\* paymentController.js:325-333 and 427-432  PaymentModel.findOne: the handler
\* holds the document as it is in the store at this moment
ConfirmRead(i, handler, reference) ==
    \E p \in {FindPaymentByRef(reference)} :
    /\ requests[i].pc = "idle"
    /\ p # NoId
    /\ requests' = [requests EXCEPT ![i] = [handler |-> handler, pc |-> "read",
                                            payment |-> p, status |-> payments[p].status]]
    /\ UNCHANGED <<stores, calls, refundCalls, last, fraudVars,
                   updates, studentVars, openSessions>>

\* Whether the handler enters the confirmation block: verifyPayment always
\* (342), handleWebhook after the test of line 434 on the document it holds.
EntersConfirm(r) == r.handler = "verifyPayment" \/ WebhookConfirms(r.status)

\* paymentController.js:343-346 and 435-437  payment.status = "confirmed"; save()
ConfirmSave(i) ==
    /\ requests[i].pc = "read"
    /\ EntersConfirm(requests[i])
    /\ payments' = [payments EXCEPT ![requests[i].payment].status = "confirmed",
                                    ![requests[i].payment].providerMetadata.paystackData =
                                        requests[i].handler]
    /\ requests' = [requests EXCEPT ![i].pc = "saved"]
    /\ UNCHANGED <<fee, feeAssignment, receipts, invoices, refunds, txLog, auditLog,
                   credits, calls, refundCalls, last, fraudVars,
                   updates, studentVars, openSessions>>

\* paymentController.js:434, 478  handleWebhook finds the document confirmed
ConfirmSkip(i) ==
    /\ requests[i].pc = "read"
    /\ ~EntersConfirm(requests[i])
    /\ requests' = [requests EXCEPT ![i].pc = "done"]
    /\ UNCHANGED <<stores, calls, refundCalls, last, fraudVars,
                   updates, studentVars, openSessions>>

\* paymentController.js:350-372 and 440-464  TransactionLog and AuditLog
ConfirmLog(i) ==
    /\ requests[i].pc = "saved"
    /\ txLog' = Append1(txLog, LogEntry("payment_confirmed", requests[i].payment, NoId))
    /\ auditLog' = logActionUtil(auditLog, "payment_confirmed", "Payment",
                                 requests[i].payment)
    /\ requests' = [requests EXCEPT ![i].pc = "logged"]
    /\ UNCHANGED <<fee, feeAssignment, payments, receipts, invoices, refunds,
                   credits, calls, refundCalls, last, fraudVars,
                   updates, studentVars, openSessions>>

\* paymentController.js:375-380 and 467-472  createInvoice
ConfirmInvoice(i) ==
    /\ requests[i].pc = "logged"
    /\ invoices' = createInvoice(invoices, requests[i].payment)
    /\ requests' = [requests EXCEPT ![i].pc = "invoiced"]
    /\ UNCHANGED <<fee, feeAssignment, payments, receipts, refunds, txLog, auditLog,
                   credits, calls, refundCalls, last, fraudVars,
                   updates, studentVars, openSessions>>

\* paymentController.js:383 and 475  updateFeeAssignmentStatus
ConfirmSettle(i) ==
    /\ requests[i].pc = "invoiced"
    /\ feeAssignment' = updateFeeAssignmentStatus(feeAssignment, requests[i].payment)
    /\ credits' = [credits EXCEPT ![requests[i].payment] = @ + 1]
    /\ requests' = [requests EXCEPT ![i].pc = "done"]
    /\ UNCHANGED <<fee, payments, receipts, invoices, refunds, txLog, auditLog,
                   calls, refundCalls, last, fraudVars,
                   updates, studentVars, openSessions>>

\* ------------------------------------------------ concurrent initializations
\* initializePayment for the student's fee assignment, run with every lookup,
\* the gateway and the receipt side effects succeeding, in three parts: up to
\* the read of the assignment, the write of the assignment, and the rest.
\* FeeAssignmentModel.findOne (140) and assignment.save() (156) take no
\* session, so they are outside the handler's transaction, and another
\* request can run between them.

\* paymentController.js:24-150  the request is validated, the gateway opens
\* the charge, and the handler reads the assignment as it is in the store
InitRead(i, studentId, amount) ==
    /\ updates[i].pc = "idle"
    /\ InitPath(studentId, "ok", amount, "ok", "none") = "ok"
    /\ updates' = [updates EXCEPT ![i] = [pc |-> "read", studentId |-> studentId,
                                          amount |-> amount,
                                          assignment |-> feeAssignment]]
    /\ UNCHANGED <<stores, calls, refundCalls, last, fraudVars, requests, studentVars, openSessions>>

\* paymentController.js:152-157  assignment.amountPaid += payment.amount; the
\* status; assignment.save(): the document the handler holds is written
InitSave(i) ==
    /\ updates[i].pc = "read"
    /\ feeAssignment' = InitAssignmentUpdate(updates[i].assignment, updates[i].amount)
    /\ updates' = [updates EXCEPT ![i].pc = "saved"]
    /\ UNCHANGED <<fee, payments, receipts, invoices, refunds, txLog, auditLog, credits,
                   calls, refundCalls, last, fraudVars, requests, studentVars, openSessions>>

\* paymentController.js:160-283  the receipt, its log entry and the commit of
\* the transaction holding the payment and the receipt
InitFinish(i) ==
    LET id == Len(payments) + 1 IN
    /\ updates[i].pc = "saved"
    /\ payments' = Append(payments,
                          [studentId |-> updates[i].studentId, schoolId |-> fee.schoolId,
                           amount |-> updates[i].amount, paymentProvider |-> "Paystack",
                           status |-> "initiated",
                           providerMetadata |-> [paystackRef |-> id,
                                                 paystackData |-> "none"]])
    /\ credits' = Append(credits, 1)
    /\ receipts' = receipts \cup {id}
    /\ txLog' = Append1(txLog, LogEntry("receipt_generated", id, NoId))
    /\ updates' = [updates EXCEPT ![i].pc = "done"]
    /\ UNCHANGED <<fee, feeAssignment, invoices, refunds, auditLog,
                   calls, refundCalls, last, fraudVars, requests, studentVars, openSessions>>

\* --------------------------------------------------------- student controller
Ips == {"ip1", "ip2"}                 \* req.ip

\* A TransactionLog entry of the student controller: the action, metadata.ip
\* and createdAt.
StudentEntry(action, ip) == [action |-> action, ip |-> ip, createdAt |-> now]

StudentCall(writes) ==
    /\ last.wrote
    /\ writes => studentCalls < MaxStudentCalls
    /\ studentCalls' = IF writes THEN studentCalls + 1 ELSE studentCalls
    /\ UNCHANGED <<calls, refundCalls, fraudVars, requests, updates, now, openSessions>>

\* The sum of f over the elements of the set S.
RECURSIVE SumOver(_, _)
SumOver(S, f) ==
    IF S = {} THEN 0
    ELSE LET e == CHOOSE x \in S : TRUE IN f[e] + SumOver(S \ {e}, f)

\* studentController.js:53-58  TransactionLog.countDocuments({action:
\* "student_login_failure", "metadata.ip": req.ip, createdAt: {$gte: oneHourAgo}})
FailedAttempts(ip) ==
    LET matching == {e \in BagToSet(studentLog) :
                        /\ e.action = "student_login_failure"
                        /\ e.ip = ip
                        /\ e.createdAt >= now - 1}
    IN SumOver(matching, studentLog)

\* Mutant of LockedOut: the limit itself is still let through.
LockedOut_Above(failedAttempts) == failedAttempts > MAX_LOGIN_ATTEMPTS

\* studentController.js:59  if (failedAttempts >= MAX_LOGIN_ATTEMPTS)
LockedOut(failedAttempts) == failedAttempts >= MAX_LOGIN_ATTEMPTS

\* The exits of login.
\*   credentials : what req.body holds: a field missing, a malformed email, an
\*                 email of no student, a wrong password, or the right ones
LoginPath(ip, credentials) ==
    IF credentials = "missing" THEN "missingFields"
    ELSE IF credentials = "malformed" THEN "invalidEmail"
    ELSE IF LockedOut(FailedAttempts(ip)) THEN "lockedOut"
    ELSE IF credentials = "unknown" THEN "studentNotFound"
    ELSE IF credentials = "wrongPassword" THEN "wrongPassword"
    ELSE "ok"

\* studentController.js:76, 128, 229  error.statusCode is not set on the errors
\* login throws, so the catch answers 400
LoginCode(path) ==
    CASE path \in {"missingFields", "invalidEmail", "lockedOut"} -> 400
      [] path \in {"studentNotFound", "wrongPassword"} -> 401
      [] OTHER -> 200

\* Mutant of logFailedLogin: one failure entry per address, written over by
\* the next failure.
logFailedLogin_Upsert(log, ip, logSave) ==
    LET others == [e \in {x \in BagToSet(log) :
                              ~(x.action = "student_login_failure" /\ x.ip = ip)}
                     |-> log[e]]
    IN IF logSave = "ok" THEN Append1(others, StudentEntry("student_login_failure", ip))
       ELSE log

\* studentController.js:248-278  logFailedLogin: transactionLog.save() without
\* the session (the save with the session is commented out), so the entry is
\* stored whatever becomes of login's transaction; a failing save is swallowed
logFailedLogin(log, ip, logSave) ==
    IF logSave = "ok" THEN Append1(log, StudentEntry("student_login_failure", ip))
    ELSE log

\* studentController.js:26-246
\*   logSave : whether logFailedLogin's save succeeds
\*   notify  : whether the notification email and document succeed
\* The 401 exits return with the transaction neither committed nor aborted, and
\* endSession() in the finally block discards it with the Notification and the
\* notification_failure entry written in it.
login(ip, credentials, logSave, notify) ==
    \E path \in {LoginPath(ip, credentials)} :
    LET failed == path \in {"studentNotFound", "wrongPassword"}
        writes == (failed /\ logSave = "ok") \/ path = "ok"
        success == Append1(studentLog, StudentEntry("student_login_success", ip))
    IN
    /\ StudentCall(writes)
    /\ last' = Response("login", path, NoId, "none", 0, LoginCode(path), writes)
    /\ studentLog' = IF failed THEN logFailedLogin(studentLog, ip, logSave)
                      ELSE IF path # "ok" THEN studentLog
                      ELSE IF notify = "fails"
                      THEN Append1(success, StudentEntry("notification_failure", ip))
                      ELSE success
    /\ refreshTokens' = IF path = "ok" THEN refreshTokens + 1 ELSE refreshTokens
    /\ UNCHANGED stores

\* studentController.js:531-541  the filter of the overdue updateMany.
\*   pastDue : whether the assignment satisfies 'feeId.dueDate': {$lt: new Date()}
OverdueMatches(a, studentId, pastDue) ==
    /\ AssignmentFound(studentId)
    /\ a.status \in {"assigned", "partially_paid"}
    /\ pastDue
    /\ a.amountPaid < a.amountDue

\* studentController.js:521-594  the overdue update, the query, the AuditLog
\* entry (its entityId is the student's id, which the entries here do not
\* carry), and 404 when the student has no assignment
getStudentFeeAssignments(studentId, pastDue) ==
    /\ StudentCall(TRUE)
    /\ feeAssignment' = IF OverdueMatches(feeAssignment, studentId, pastDue)
                        THEN [feeAssignment EXCEPT !.status = "overdue"]
                        ELSE feeAssignment
    /\ auditLog' = logActionUtil(auditLog, "fee_assignments_viewed", "FeeAssignment", NoId)
    /\ last' = Response("getStudentFeeAssignments",
                        IF AssignmentFound(studentId) THEN "found" ELSE "none", NoId,
                        feeAssignment.status, 0,
                        IF AssignmentFound(studentId) THEN 200 ELSE 404, TRUE)
    /\ UNCHANGED <<fee, payments, receipts, invoices, refunds, txLog, credits,
                   studentLog, refreshTokens>>

\* An hour passes.
Tick ==
    /\ now < MaxTime
    /\ now' = now + 1
    /\ UNCHANGED <<stores, calls, refundCalls, last, fraudVars, requests, updates,
                   studentLog, studentCalls, refreshTokens, openSessions>>

\* --------------------------------------------------------------- checkFraud
\* fraudDetection.js:64
\*   Math.min((reconstruction_error / (threshold * 2.5)) * 100, 100)
FraudScore(reconstruction_error, threshold) ==
    MathMin(JsTimes(JsDivide(reconstruction_error, JsTimes(threshold, JsRatio(5, 2))),
                    JsNumber(100)),
            JsNumber(100))

\* fraudDetection.js:122  the fallback
FraudFallback == [fraudScore |-> JsNumber(0), anomaly_scale |-> "Low"]

\* The exit path of checkFraud, in the order of the code.
\*   lookup  : what StudentModel.findById (21) and the findOne of line 24 find.
\*             The model queried on line 24 is the default export of
\*             models/FraudLog.js, imported under the name FeeAssignmentModel
\*             (line 6).
\*   oracle  : the answer of the scoring service to axios.post (57): the
\*             request throws, response.data is missing (the destructuring of
\*             line 61 throws), or response.data is an object, whose
\*             reconstruction_error and threshold may be absent (NaN).
\*   fraudLog: FraudLogModel.create (81).  The module binds no FraudLogModel
\*             (line 6 binds the FraudLog model to another name), so as the
\*             file stands the call throws a ReferenceError ("unbound"); the
\*             call is modelled by its other outcomes too: the document fails
\*             the schema (FraudLog.js:7-8 require reconstruction_error and an
\*             anomaly_scale of the enum) or is saved.
FraudPath(lookup, oracle, reconstruction_error, threshold, fraudLog) ==
    IF lookup = "studentMissing" THEN "studentNotFound"
    ELSE IF lookup = "assignmentMissing" THEN "assignmentNotFound"
    ELSE IF oracle = "unreachable" THEN "oracleThrew"
    ELSE IF oracle = "noData" THEN "responseEmpty"
    ELSE IF fraudLog = "unbound" THEN "fraudLogUnbound"
    ELSE IF fraudLog = "invalid" THEN "fraudLogInvalid"
    ELSE "scored"

\* Paths that pass line 64.
FraudScored == {"fraudLogUnbound", "fraudLogInvalid", "scored"}

\* fraudDetection.js:91-123  the catch block.  It logs fraud_check_error (93),
\* then builds the FraudCheckQueue document (105-120), whose requestData reads
\* feeAssignment, student, isNewDevice and timeSinceLastPaymentDays: these are
\* declared with const inside the try block (21, 24, 35, 42) and are not in
\* scope in the catch block, so evaluating line 109 throws a ReferenceError
\* before FraudCheckQueueModel.create is called, and the error leaves
\* checkFraud.
CatchQueues == FALSE

QueueEntry(paymentId) == [paymentId |-> paymentId, status |-> "queued", retries |-> 0]

checkFraud(paymentId, lookup, oracle, reconstruction_error, threshold, anomaly_scale, fraudLog) ==
    \E path \in {FraudPath(lookup, oracle, reconstruction_error, threshold, fraudLog)} :
    LET score == IF path \in FraudScored
                 THEN FraudScore(reconstruction_error, threshold) ELSE NoNumber
        checked == IF path \in FraudScored
                   THEN Append1(txLog, LogEntry("fraud_check", paymentId, NoId))
                   ELSE txLog
        caught == path # "scored"
    IN
    /\ fraudCalls < MaxFraudCalls
    /\ fraudCalls' = fraudCalls + 1
    /\ txLog' = IF caught
                THEN Append1(checked, LogEntry("fraud_check_error", paymentId, NoId))
                ELSE checked
    /\ fraudLogs' = IF path = "scored" THEN Append1(fraudLogs, paymentId) ELSE fraudLogs
    /\ fraudQueue' = IF caught /\ CatchQueues
                     THEN Append(fraudQueue, QueueEntry(paymentId)) ELSE fraudQueue
    /\ fraudCall' =
         [paymentId |-> paymentId, path |-> path,
          reconstruction_error |-> reconstruction_error, threshold |-> threshold,
          score |-> score,
          outcome |-> IF caught /\ ~CatchQueues THEN "threw" ELSE "returned",
          result |-> IF ~caught
                     THEN [fraudScore |-> score, anomaly_scale |-> anomaly_scale]
                     ELSE IF CatchQueues THEN FraudFallback ELSE NoFraudResult]
    /\ UNCHANGED <<fee, feeAssignment, payments, receipts, invoices, refunds,
                   auditLog, credits, calls, refundCalls, last, requests, updates,
                   studentVars, openSessions>>

\* ------------------------------------------------------------------ inputs
InitInputs ==
    {i \in [studentId : Students,
            lookup : {"ok", "feeMissing", "schoolMissing", "providerMissing", "studentMissing"},
            amount : Amounts, gw : {"ok", "declined", "throws"},
            side : {"none", "upload", "receipt", "email", "log"}] :
        \* an input the handler does not get to use is left at its first value:
        \* the side effects follow the gateway and the lookups, the gateway
        \* follows the fee, school and provider lookups, and the student is
        \* first used in the fee assignment lookup, which follows the gateway
        /\ (i.gw # "ok" \/ i.lookup # "ok") => i.side = "none"
        /\ i.lookup \in {"feeMissing", "schoolMissing", "providerMissing"} => i.gw = "ok"
        /\ (i.gw # "ok" \/ i.lookup \notin {"ok", "studentMissing"}) => i.studentId = "s1"}

References == 0 .. MaxPayments

ReviewInputs ==
    {i \in [adminId : Schools, refundId : 0 .. MaxRefunds,
            status : {"approved", "rejected", "processed"},
            provider : BOOLEAN, gw : {"accepted", "declined", "throws"}] :
        /\ (i.status # "approved" \/ ~i.provider) => i.gw = "accepted"
        /\ i.status # "approved" => i.provider}

RefundEvents ==
    [event : {"refund.processed", "refund.failed", "refund.pending"}, reference : References]

Signatures(body) == {Hmac(PaystackSecret, body), Hmac("another key", body), <<>>}

\* The events delivered to handleWebhook (req.body, paymentController.js:423)
PaymentEvents ==
    [event : {"charge.success", "charge.failed", "charge.dispute"}, reference : References]

\* -------------------------------------------------------------------- Next
InitializePayment ==
    \E i \in InitInputs : initializePayment(i.studentId, i.lookup, i.amount, i.gw, i.side)

VerifyPayment ==
    \E reference \in References, gw \in {"success", "failed", "throws"} :
        verifyPayment(reference, gw)

HandleWebhook ==
    \E event \in {"charge.success", "charge.failed", "charge.dispute"},
       reference \in References :
        handleWebhook(event, reference)

RequestRefund ==
    \E s \in Students, p \in References, a \in Amounts : requestRefund(s, p, a)

ReviewRefund ==
    \E i \in ReviewInputs : reviewRefund(i.adminId, i.refundId, i.status, i.provider, i.gw)

HandleRefundWebhook ==
    \E body \in RefundEvents : \E signature \in Signatures(body) :
        handleRefundWebhook(body, signature)

\* The payment workflow.
NextPayment == InitializePayment \/ VerifyPayment \/ HandleWebhook

SpecPayment == Init /\ [][NextPayment]_vars

\* The refund workflow for one payment, of any amount initializePayment accepts
\* (the fee allows partial payment).  The handlers select refunds by paymentId,
\* so the refunds of one payment are untouched by requests about another.  The
\* refund handlers read of a payment its amount, studentId, schoolId,
\* paymentProvider and paystackRef, which verifyPayment and handleWebhook never
\* write; they read neither payment.status nor the fee assignment.
CreatePayment ==
    /\ payments = <<>>
    /\ \E s \in Students, a \in Amounts : initializePayment(s, "ok", a, "ok", "none")

NextRefund == CreatePayment \/ RequestRefund \/ ReviewRefund \/ HandleRefundWebhook

InitRefund == Init /\ fee.allowPartialPayment

SpecRefund == InitRefund /\ [][NextRefund]_vars

\* The fraud check, invoked for payments of the caller's choosing.  The
\* oracle's numbers: negative, zero, the scenario of the specification (50
\* against a threshold of 40), above the cap, and absent.
OracleNumbers == {JsNumber(-1), JsNumber(0), JsNumber(40), JsNumber(50), JsNumber(150), NaN}

FraudInputs ==
    {i \in [paymentId : 1 .. 2,
            lookup : {"ok", "studentMissing", "assignmentMissing"},
            oracle : {"ok", "unreachable", "noData"},
            reconstruction_error : OracleNumbers, threshold : OracleNumbers,
            anomaly_scale : {"Medium"},
            fraudLog : {"unbound", "invalid", "saved"}] :
        \* an input the function does not get to use is left at its first value
        /\ i.lookup # "ok" => i.oracle = "ok"
        /\ (i.lookup # "ok" \/ i.oracle # "ok")
           => /\ i.reconstruction_error = NaN /\ i.threshold = NaN
              /\ i.fraudLog = "unbound"
        \* a document without reconstruction_error fails the FraudLog schema
        /\ i.fraudLog = "invalid" => i.reconstruction_error = NaN
        /\ i.fraudLog = "saved" => i.reconstruction_error # NaN}

CheckFraud ==
    \E i \in FraudInputs :
        checkFraud(i.paymentId, i.lookup, i.oracle, i.reconstruction_error,
                   i.threshold, i.anomaly_scale, i.fraudLog)

NextFraud == CheckFraud

SpecFraud == Init /\ [][NextFraud]_vars

\* Confirmation requests racing on one payment.
RequestArrives ==
    \E i \in RequestIds, handler \in {"verifyPayment", "handleWebhook"},
       reference \in References :
        ConfirmRead(i, handler, reference)

RequestRuns ==
    \E i \in RequestIds :
        ConfirmSave(i) \/ ConfirmSkip(i) \/ ConfirmLog(i) \/ ConfirmInvoice(i)
            \/ ConfirmSettle(i)

NextRace == CreatePayment \/ RequestArrives \/ RequestRuns

SpecRace == Init /\ [][NextRace]_vars

Login ==
    \E ip \in Ips,
       credentials \in {"missing", "malformed", "unknown", "wrongPassword", "ok"},
       logSave \in {"ok", "fails"}, notify \in {"ok", "fails"} :
        \* an input the handler does not get to use is left at its first value
        /\ credentials \notin {"unknown", "wrongPassword"} => logSave = "ok"
        /\ credentials # "ok" => notify = "ok"
        /\ login(ip, credentials, logSave, notify)

GetStudentFeeAssignments ==
    \E s \in Students, pastDue \in BOOLEAN : getStudentFeeAssignments(s, pastDue)

\* Every controller.  The handlers of one controller read nothing another
\* controller writes, but for the payment and the fee assignment that
\* initializePayment creates and the refund and student handlers read: a
\* behaviour is the payment workflow, or the fraud check, or the refund or the
\* student workflow after at most one initializePayment.  The clock is read
\* only against the createdAt of the student controller's entries, so it
\* starts when the first of them is written.
PaymentTurn == refundCalls = 0 /\ fraudCalls = 0 /\ studentCalls = 0
RefundTurn == calls <= 1 /\ fraudCalls = 0 /\ studentCalls = 0
FraudTurn == last.op = "none" /\ studentLog = EmptyBag
StudentTurn == calls <= 1 /\ refundCalls = 0 /\ fraudCalls = 0

NextSystem ==
    \/ PaymentTurn /\ InitializePayment
    \/ PaymentTurn /\ VerifyPayment
    \/ PaymentTurn /\ HandleWebhook
    \/ RefundTurn /\ RequestRefund
    \/ RefundTurn /\ ReviewRefund
    \/ RefundTurn /\ HandleRefundWebhook
    \/ FraudTurn /\ CheckFraud
    \/ StudentTurn /\ Login
    \/ StudentTurn /\ GetStudentFeeAssignments
    \/ (studentLog # EmptyBag /\ last.wrote) /\ Tick

SpecSystem == Init /\ [][NextSystem]_vars

\* The two webhook endpoints, with a payment and its requested refunds to act
\* on.
NextWebhooks == CreatePayment \/ RequestRefund \/ HandleWebhook \/ HandleRefundWebhook

SpecWebhooks == Init /\ [][NextWebhooks]_vars

\* Logins over the hours.
NextLogin == Login \/ Tick

SpecLogin == Init /\ [][NextLogin]_vars

\* Initializations racing on the student's fee assignment.
InitArrives ==
    \E i \in RequestIds, amount \in Amounts : InitRead(i, "s1", amount)

InitRuns == \E i \in RequestIds : InitSave(i) \/ InitFinish(i)

NextBalance == InitArrives \/ InitRuns

SpecBalance == Init /\ [][NextBalance]_vars

\* ================================================================== claims
IsPrefix(s, t) == Len(s) <= Len(t) /\ SubSeq(t, 1, Len(s)) = s

\* The sum of the amounts of a set of initializations.
RECURSIVE SumAmounts(_)
SumAmounts(S) ==
    IF S = {} THEN 0
    ELSE LET i == CHOOSE j \in S : TRUE IN updates[i].amount + SumAmounts(S \ {i})

\* C1 (as claimed): for every payment, its amount is added to the fee
\* assignment's amountPaid at most once over all initializePayment,
\* verifyPayment and handleWebhook calls.
C1_CreditedAtMostOnce ==
    \A p \in PaymentIds : credits[p] <= 1

\* C2 (as claimed): verifyPayment on a payment that is already confirmed, the
\* gateway reporting success again, runs no settlement, generates no invoice,
\* writes no payment_confirmed entry and leaves the payment as it is.
C2_VerifyOfConfirmedIsNoOp ==
    [][\A reference \in References :
          (StatusOf(FindPaymentByRef(reference)) = "confirmed"
           /\ verifyPayment(reference, "success"))
          => UNCHANGED <<feeAssignment, credits, invoices, txLog, payments>>]_vars

\* C3: handleWebhook with charge.success for a payment that is already
\* confirmed answers 200 and writes nothing: no settlement, no invoice, no log
\* entry, amountPaid unchanged.
C3_WebhookOfConfirmedIsNoOp ==
    [][(/\ last'.op = "handleWebhook"
        /\ last'.path \in {"confirmed", "alreadyConfirmed"}   \* charge.success
        /\ last'.pre = "confirmed")
       => (last'.code = 200 /\ UNCHANGED stores)]_vars

C3_Witness ==
    /\ last.op = "handleWebhook" /\ last.path = "alreadyConfirmed"
    /\ last.pre = "confirmed" /\ last.code = 200
    /\ feeAssignment.amountPaid > 0

\* C4 (as claimed): once a payment is confirmed or rejected, no call changes
\* its status.
C4_StatusIsTerminal ==
    [][\A p \in PaymentIds :
          payments[p].status \in {"confirmed", "rejected"}
          => payments'[p].status = payments[p].status]_vars

\* C5 (as claimed): for every payment, the amounts of its refunds in status
\* approved or processed sum to at most the payment's amount.
C5_RefundsWithinPayment ==
    \A p \in PaymentIds :
        SumRefunds(refunds, p, {"approved", "processed"}) <= payments[p].amount

\* C6: when the gateway declines the charge initialization or the call throws,
\* initializePayment reports failure and no Payment (and no Receipt) of that
\* attempt is in the store.
C6_NoPaymentOnGatewayFailure ==
    [][(last'.op = "initializePayment" /\ last'.path \in {"gatewayDeclined", "gatewayThrew"})
       => (last'.code >= 500 /\ payments' = payments /\ receipts' = receipts)]_vars

C6_Witness ==
    /\ last.op = "initializePayment" /\ last.path = "gatewayDeclined"
    /\ last.code = 500 /\ payments = <<>>

\* C7 (as claimed): when the gateway accepted the charge, the failure of a
\* later side effect (upload, receipt record, receipt e-mail, receipt log)
\* leaves the Payment, in status initiated, in the store.
C7_SideEffectFailureKeepsPayment ==
    [][(last'.op = "initializePayment"
        /\ last'.path \in {"uploadFailed", "receiptFailed", "emailFailed", "okLogFailed"})
       => (/\ Len(payments') = Len(payments) + 1
           /\ payments'[Len(payments')].status = "initiated")]_vars

C9_PositiveAmount ==
    /\ [](\A p \in PaymentIds : payments[p].amount > 0)
    /\ [][(last'.op = "initializePayment" /\ last'.amount <= 0)
          => (last'.code \in 400 .. 499 /\ UNCHANGED <<payments, feeAssignment>>)]_vars

C9_Witness ==
    /\ last.op = "initializePayment" /\ last.amount <= 0
    /\ last.path = "invalidAmount" /\ last.code = 400
    /\ payments = <<>> /\ feeAssignment.amountPaid = 0

\* C10: every status transition a handler makes on a refund (the decision of
\* reviewRefund, the gateway's acceptance, the gateway's decline that moves the
\* refund to failed, the webhook's processed / failed) appends exactly one entry
\* to the refund's stored audit trail, and the audit trail only grows.
C10_OneEntryPerStatusTransition ==
    [][\A r \in RefundIds :
          /\ IsPrefix(refunds[r].auditTrail, refunds'[r].auditTrail)
          /\ (last'.op = "reviewRefund" /\ last'.id = r)
             => Len(refunds'[r].auditTrail) =
                    Len(refunds[r].auditTrail) + ReviewStatusAssignments(last'.path)
          /\ (last'.op = "handleRefundWebhook" /\ last'.id = r)
             => Len(refunds'[r].auditTrail) = Len(refunds[r].auditTrail) + 1]_vars

\* C11: when reviewRefund approves a refund and the gateway declines the
\* refund call, the stored refund's status is failed afterwards and the caller
\* receives an error.
C11_DeclineStoresFailed ==
    [][(last'.op = "reviewRefund" /\ last'.path = "gatewayDeclined")
          => (refunds'[last'.id].status = "failed" /\ last'.code >= 400)]_vars

\* C12: a refund in status rejected is terminal: no reviewRefund or
\* handleRefundWebhook call changes its status or sends a refund request for it
\* to the gateway.
C12_RejectedIsTerminal ==
    [][\A r \in RefundIds :
          refunds[r].status = "rejected"
          => /\ refunds'[r].status = "rejected"
             /\ ~(last'.op = "reviewRefund" /\ last'.id = r
                                            /\ last'.path \in ReviewGatewayCalled)]_vars

\* C13: handleRefundWebhook with a signature that is not the HMAC-SHA512 of the
\* event body under the shared secret answers 401 and creates or changes no
\* Refund, audit trail or log entry.
C13_InvalidSignatureRejected ==
    [][last'.op = "handleRefundWebhook"
       => \A body \in RefundEvents : \A signature \in Signatures(body) :
             (signature # Hmac(PaystackSecret, body) /\ handleRefundWebhook(body, signature))
             => (last'.code = 401 /\ UNCHANGED <<refunds, txLog, auditLog>>)]_vars

\* C13 witness: a request with a bad signature was answered 401 while a refund
\* that a signed event would have moved was waiting.
C13_Witness ==
    /\ last.op = "handleRefundWebhook" /\ last.path = "invalidSignature" /\ last.code = 401
    /\ \E r \in RefundIds : refunds[r].status = "approved" /\ FindOpenRefund(refunds[r].paymentId) = r

\* C14: a handleWebhook event whose signature is missing or invalid changes no
\* Payment status and triggers no settlement.
C14_UnsignedWebhookChangesNothing ==
    [][last'.op = "handleWebhook"
       => \A body \in PaymentEvents : \A signature \in Signatures(body) :
             (~SignatureValid(body, signature) /\ handleWebhook(body.event, body.reference))
             => /\ \A p \in PaymentIds : payments'[p].status = payments[p].status
                /\ UNCHANGED <<feeAssignment, credits>>]_vars

\* C15: a refund.processed event delivered again for the same payment reference
\* changes no Refund record, whatever other refunds the payment has.
C15_ProcessedRedeliveryIsNoOp ==
    [][\A body \in RefundEvents :
          (/\ last.op = "handleRefundWebhook" /\ last.path = "processed"
           /\ body.event = "refund.processed"
           /\ FindPaymentByRef(body.reference) = refunds[last.id].paymentId
           /\ handleRefundWebhook(body, Hmac(PaystackSecret, body)))
          => refunds' = refunds]_vars

\* C16: checkFraud returns a result for every invocation; no exception leaves
\* it, whichever lookup or oracle call fails.
C16_CheckFraudAlwaysReturns == fraudCall.outcome \in {"none", "returned"}

\* C17: when the scoring call fails, the result is {fraudScore: 0,
\* anomaly_scale: 'Low'} and exactly one FraudCheckQueue entry (queued, retries
\* 0) is created for the payment; when scoring succeeds no entry is created.
C17_FailureQueuesOnce ==
    [][fraudCall' # fraudCall
       => IF fraudCall'.path = "scored"
          THEN fraudQueue' = fraudQueue
          ELSE /\ fraudCall'.outcome = "returned"
               /\ fraudCall'.result = [fraudScore |-> JsNumber(0), anomaly_scale |-> "Low"]
               /\ fraudQueue' = Append(fraudQueue,
                                       [paymentId |-> fraudCall'.paymentId,
                                        status |-> "queued", retries |-> 0])]_vars

C19_ScoreFormula ==
    LET e == fraudCall.reconstruction_error
        t == fraudCall.threshold
        f == fraudCall.result.fraudScore
    IN (fraudCall.path \in FraudScored /\ e.k = "fin" /\ t.k = "fin" /\ t.n > 0)
       => /\ fraudCall.outcome = "returned"
          /\ f.k = "fin"
          /\ IF 40 * e.n * t.d <= 100 * t.n * e.d
             THEN f.n * t.n * e.d = 40 * e.n * t.d * f.d
             ELSE f.n = 100 * f.d
          /\ (e = JsNumber(50) /\ t = JsNumber(40)) => f.n = 50 * f.d

\* C20: when handleWebhook and verifyPayment, or two charge.success
\* deliveries, run concurrently to confirm the same initiated payment (each
\* read it while it was initiated), settlement and invoice generation run at
\* most once for the payment, under every interleaving.
C20_RaceSettlesOnce ==
    \A p \in PaymentIds :
        (\A i \in RequestIds :
            requests[i].pc # "idle"
            => (requests[i].payment = p /\ requests[i].status = "initiated"))
        => /\ CopiesIn(p, invoices) <= 1
           /\ credits[p] - 1 <= 1

\* C21: the balance update loses no update: when the initializations that add
\* an amount to the fee assignment have all finished, amountPaid is the initial
\* value (0) plus all their amounts, under every interleaving.
C21_NoLostUpdate ==
    (\A i \in RequestIds : updates[i].pc \in {"idle", "done"})
    => feeAssignment.amountPaid =
           SumAmounts({i \in RequestIds : updates[i].pc = "done"})

\* C22: amountPaid and status of the fee assignment change only in a step in
\* which a payment becomes confirmed, and initializePayment leaves the fee
\* assignment unchanged.
C22_AssignmentChangesOnlyOnConfirmation ==
    [][/\ last'.op = "initializePayment" => feeAssignment' = feeAssignment
       /\ feeAssignment' # feeAssignment
          => \E p \in 1 .. Len(payments) :
                 /\ payments[p].status # "confirmed"
                 /\ payments'[p].status = "confirmed"]_vars

\* C24: amountPaid of the fee assignment never decreases in a step.
C24_AmountPaidNeverDecreases ==
    [][feeAssignment'.amountPaid >= feeAssignment.amountPaid]_vars

\* C25: requestRefund by the payment's student answers 400 and creates no
\* Refund and no log entry when amount <= 0 or amount exceeds the payment's
\* amount minus the sum of its approved and processed refunds; otherwise it
\* creates one Refund, in status requested, with the one audit-trail entry
\* refund_requested.
C25_RequestRefundAmountCheck ==
    [][last'.op = "requestRefund"
       => \A s \in Students, p \in PaymentIds, a \in Amounts :
             (payments[p].studentId = s /\ requestRefund(s, p, a))
             => IF \/ a <= 0
                   \/ a > payments[p].amount
                          - SumRefunds(refunds, p, {"approved", "processed"})
                THEN /\ last'.code = 400
                     /\ UNCHANGED <<refunds, txLog, auditLog>>
                ELSE /\ last'.code = 201
                     /\ Len(refunds') = Len(refunds) + 1
                     /\ SubSeq(refunds', 1, Len(refunds)) = refunds
                     /\ refunds'[Len(refunds')].paymentId = p
                     /\ refunds'[Len(refunds')].amount = a
                     /\ refunds'[Len(refunds')].status = "requested"
                     /\ refunds'[Len(refunds')].auditTrail = <<"refund_requested">>]_vars

\* C25 witness: a request for an amount within the payment's amount was refused
\* because an approved or processed refund had used up what was left.
C25_Witness ==
    /\ last.op = "requestRefund" /\ last.path = "invalidAmount"
    /\ last.amount > 0
    /\ \E p \in PaymentIds :
          /\ last.amount <= payments[p].amount
          /\ SumRefunds(refunds, p, {"approved", "processed"}) > 0
          /\ \A q \in PaymentIds : q = p

\* C26: when reviewRefund answers an approval with a validation error (here:
\* the provider is not configured for the school), the stored refund has the
\* status it had before the call and its audit trail has not grown.
C26_ValidationErrorKeepsRefund ==
    [][(last'.op = "reviewRefund" /\ last'.path = "providerNotConfigured")
       => /\ last'.code = 400
          /\ refunds'[last'.id].status = refunds[last'.id].status
          /\ Len(refunds'[last'.id].auditTrail) = Len(refunds[last'.id].auditTrail)]_vars

\* C30: a refund becomes processed only from status approved: no step moves a
\* refund that is in status requested to processed.
C30_ProcessedOnlyAfterApproved ==
    [][\A r \in RefundIds :
          (refunds[r].status # "processed" /\ refunds'[r].status = "processed")
          => refunds[r].status = "approved"]_vars

\* C27: requestRefund creates a refund only for a payment of the requesting
\* student, and reviewRefund changes a refund only when it belongs to the
\* reviewing school and the decision is approved or rejected; every other call
\* is answered with a client error and changes no record: a step of either
\* handler that is not such a refusal is the step of no unauthorized call.  (A
\* refused review does not reach the provider lookup or the gateway, so its
\* step is the one with the provider configured and the gateway accepting.)
C27_RefundAuthorization ==
    [][/\ last'.op = "requestRefund"
          => \/ last'.code \in {403, 404} /\ UNCHANGED stores
             \/ \A s \in Students, p \in References :
                   ~(/\ p \notin PaymentIds \/ payments[p].studentId # s
                     /\ requestRefund(s, p, last'.amount))
       /\ last'.op = "reviewRefund"
          => \/ last'.code \in {400, 403, 404} /\ UNCHANGED stores
             \/ \A adminId \in Schools,
                   r \in (IF last'.id = NoId THEN (0 .. MaxRefunds) \ RefundIds
                          ELSE {last'.id}),
                   status \in {"approved", "rejected", "processed"} :
                   ~(/\ \/ r \notin RefundIds
                        \/ refunds[r].schoolId # adminId
                        \/ status \notin {"approved", "rejected"}
                     /\ reviewRefund(adminId, r, status, TRUE, "accepted"))]_vars

\* C27 witness: a student other than the payer asked for a refund of a payment
\* that already has a refund of its payer, and was refused.
C27_Witness ==
    /\ last.op = "requestRefund" /\ last.path = "unauthorized" /\ last.code = 403
    /\ refunds # <<>>
    /\ \A r \in RefundIds : refunds[r].studentId = payments[refunds[r].paymentId].studentId

\* C23: in every state the fee assignment is fully_paid exactly when
\* amountPaid >= amountDue, and otherwise partially_paid when amountPaid > 0 and
\* assigned or overdue when amountPaid = 0.
C23_StatusMatchesBalance ==
    /\ feeAssignment.status = "fully_paid"
       <=> feeAssignment.amountPaid >= feeAssignment.amountDue
    /\ (feeAssignment.amountPaid < feeAssignment.amountDue /\ feeAssignment.amountPaid > 0)
       => feeAssignment.status = "partially_paid"
    /\ feeAssignment.amountPaid = 0 => feeAssignment.status \in {"assigned", "overdue"}

\* C28: a webhook event of an unknown type is acknowledged with 200 and changes
\* no Payment, FeeAssignment, Refund or log: handleWebhook for an event other
\* than charge.success / charge.failed, and handleRefundWebhook with a valid
\* signature for an event other than refund.processed / refund.failed.
C28_UnknownEventIgnored ==
    [][/\ last'.op = "handleWebhook"
          => \A body \in PaymentEvents :
                (/\ body.event \notin {"charge.success", "charge.failed"}
                 /\ handleWebhook(body.event, body.reference))
                => (last'.code = 200 /\ UNCHANGED stores)
       /\ last'.op = "handleRefundWebhook"
          => \A body \in RefundEvents :
                (/\ body.event \notin {"refund.processed", "refund.failed"}
                 /\ handleRefundWebhook(body, Hmac(PaystackSecret, body)))
                => (last'.code = 200 /\ UNCHANGED stores)]_vars

\* C28 witness: a signed refund event of an unknown type was acknowledged while
\* the payment it names had a refund that refund.processed or refund.failed
\* would have moved.
C28_Witness ==
    /\ last.op = "handleRefundWebhook" /\ last.path = "ignored" /\ last.code = 200
    /\ \E p \in PaymentIds : payments[p].status = "initiated" /\ FindOpenRefund(p) # NoId

\* C29: the TransactionLog is append-only: every entry present before a step,
\* of any controller, is present after it, as many times.
C29_TransactionLogAppendOnly ==
    [][txLog \sqsubseteq txLog' /\ studentLog \sqsubseteq studentLog']_vars

\* C29 witness: a failed login's entry of an earlier hour is still in the log
\* after a later failed login from the same address.
C29_Witness ==
    /\ last.op = "login" /\ last.path \in {"studentNotFound", "wrongPassword"}
    /\ \E e \in BagToSet(studentLog), f \in BagToSet(studentLog) :
          /\ e.action = "student_login_failure" /\ f.action = "student_login_failure"
          /\ e.ip = f.ip
          /\ e.createdAt < f.createdAt /\ f.createdAt = now

\* C31: the refund request for a refund goes to the gateway at most once: a
\* reviewRefund call on a refund that is already approved, processed or failed
\* sends no refund request to the gateway.
C31_GatewayRefundAtMostOnce ==
    [][(last'.op = "reviewRefund" /\ last'.path \in ReviewGatewayCalled)
       => last'.pre \notin {"approved", "processed", "failed"}]_vars

\* C35: handleRefundWebhook for a correctly signed refund.failed event changes
\* no refund but one of the referenced payment that is approved or requested,
\* which it moves to failed with one more audit entry, refund_failed; when the
\* payment has such a refund, one is moved.
C35_RefundFailedMovesOneOpenRefund ==
    [][last'.op = "handleRefundWebhook"
       => \A body \in {b \in RefundEvents : b.event = "refund.failed"} :
             handleRefundWebhook(body, Hmac(PaystackSecret, body))
             => LET p == FindPaymentByRef(body.reference)
                    open == {r \in RefundIds :
                                /\ refunds[r].paymentId = p
                                /\ refunds[r].status \in {"approved", "requested"}}
                    changed == {r \in RefundIds : refunds'[r] # refunds[r]}
                IN /\ Len(refunds') = Len(refunds)
                   /\ changed \subseteq open
                   /\ Cardinality(changed) = IF open = {} THEN 0 ELSE 1
                   /\ \A r \in changed :
                         /\ refunds'[r].status = "failed"
                         /\ refunds'[r].auditTrail
                            = Append(refunds[r].auditTrail, "refund_failed")
                         /\ refunds'[r].amount = refunds[r].amount]_vars

\* C35 witness: refund.failed moved one refund of a payment to failed while
\* another refund of the payment, already processed, stayed as it was.
C35_Witness ==
    /\ last.op = "handleRefundWebhook" /\ last.path = "failed"
    /\ refunds[last.id].status = "failed"
    /\ \E r \in RefundIds :
          /\ r # last.id
          /\ refunds[r].paymentId = refunds[last.id].paymentId
          /\ refunds[r].status = "processed"

\* C36: a refund is created only for a confirmed payment.
C36_RefundOnlyForConfirmedPayment ==
    [][Len(refunds') > Len(refunds)
       => payments[refunds'[Len(refunds')].paymentId].status = "confirmed"]_vars

\* C33: initializePayment leaves no transaction open: on every exit the
\* transaction it started has been committed or aborted and its session ended.
C33_NoTransactionLeftOpen ==
    [][last'.op = "initializePayment"
       => /\ InitTransaction(last'.path) \in {"committed", "aborted"}
          /\ openSessions' = openSessions]_vars

\* C32: every step in which a payment becomes confirmed or rejected appends
\* one TransactionLog entry for that payment with the matching action,
\* payment_confirmed or payment_rejected.
C32_StatusTransitionLogged ==
    [][\A p \in PaymentIds :
          (/\ payments'[p].status # payments[p].status
           /\ payments'[p].status \in {"confirmed", "rejected"})
          => LET entry == LogEntry("payment_" \o payments'[p].status, p, NoId)
             IN CopiesIn(entry, txLog') = CopiesIn(entry, txLog) + 1]_vars

\* C34: an initializePayment call that commits no Payment leaves the fee
\* assignment unchanged.
C34_NoPaymentNoAssignmentChange ==
    [][(last'.op = "initializePayment" /\ payments' = payments)
       => feeAssignment' = feeAssignment]_vars

\* The student_login_failure entries of an address in the trailing hour.
RecentFailures(ip) ==
    CopiesIn([action |-> "student_login_failure", ip |-> ip, createdAt |-> now],
             studentLog)
    + CopiesIn([action |-> "student_login_failure", ip |-> ip, createdAt |-> now - 1],
               studentLog)

\* C37: a failed login (unknown email or wrong password) whose log write
\* succeeds records one student_login_failure entry, although the login
\* transaction is not committed; and once an address has MAX_LOGIN_ATTEMPTS
\* such entries in the trailing hour, every login from it, also with the right
\* credentials, is refused and creates no refresh token and no log entry.
C37_LoginLockout ==
    [][(last'.op = "login" /\ now' = now)
       => /\ (last'.path \in {"studentNotFound", "wrongPassword"} /\ last'.wrote)
             => \E ip \in Ips :
                   /\ studentLog' =
                        Append1(studentLog, StudentEntry("student_login_failure", ip))
                   /\ refreshTokens' = refreshTokens
          /\ \/ /\ last'.code \in {400, 401}
                /\ studentLog' = studentLog /\ refreshTokens' = refreshTokens
             \/ \A ip \in Ips,
                   credentials \in {"missing", "malformed", "unknown", "wrongPassword", "ok"},
                   logSave \in {"ok", "fails"}, notify \in {"ok", "fails"} :
                   ~(/\ RecentFailures(ip) >= MAX_LOGIN_ATTEMPTS
                     /\ login(ip, credentials, logSave, notify))]_vars

\* C37 witness: a login was refused as locked out, its address having reached
\* the limit of failures in the trailing hour, some of them of the hour before.
C37_Witness ==
    /\ last.op = "login" /\ last.path = "lockedOut" /\ last.code = 400
    /\ refreshTokens = 0
    /\ \E ip \in Ips :
          /\ RecentFailures(ip) >= MAX_LOGIN_ATTEMPTS
          /\ CopiesIn([action |-> "student_login_failure", ip |-> ip,
                       createdAt |-> now - 1], studentLog) > 0

=============================================================================
